---- MODULE Spec2Model ----
(***************************************************************************)
(* The event bus of src/event_bus/bus.py: a registry (dict: event name ->  *)
(* set of handlers) with register, unregister and a synchronous,           *)
(* re-entrant emit.  TypedEventBus and UntypedEventBus have the same       *)
(* registry code; they differ only in the arguments emit passes to a       *)
(* handler, and each invocation records the arguments of both.             *)
(*                                                                         *)
(* emit is "for event_handler in self.registry.get(event_name, [])": it    *)
(* iterates the registry's own set object.  Each emission in progress is a *)
(* frame of the call stack, holding the state of its set iterator.  A      *)
(* handler is arbitrary code: while it runs it may call register,          *)
(* unregister and emit on the bus, raise an error of its own, or return.   *)
(*                                                                         *)
(* Specifications:                                                         *)
(*   Spec       one bus, a caller and handlers that are arbitrary code     *)
(*   RaceSpec   register called by two threads, statement by statement     *)
(*   PairSpec   a TypedEventBus and an UntypedEventBus given the same      *)
(*              calls                                                      *)
(*   DemoSpec   the demo of src/main.py                                    *)
(*   ChainSpec  handlers whose bodies emit events, with fairness on the    *)
(*              running program                                            *)
(***************************************************************************)
EXTENDS Integers, Sequences, FiniteSets, TLC

\* The event names, handlers and payloads of the model.  Event names are
\* strings and handlers are function references (compared by identity).  The
\* bus never looks into a payload and hands it on as it is: one payload,
\* different from every event name, stands for them all.
Events == {"A", "B"}
Handlers == {"h1", "h2", "h3"}
Payloads == {"x"}
NoHandler == "none"

\* Bounds of the model: emit calls nested at most MaxDepth deep, and handlers
\* making at most MaxCalls bus calls during one top-level emit.
MaxDepth == 2
MaxCalls == 2

VARIABLES
  registry,    \* self.registry: a function whose DOMAIN is the dict's keys
  registered,  \* history: the <<event, handler>> pairs registered and not since unregistered
  stack,       \* the emit calls in progress, outermost first
  exc,         \* the exception in flight, "none" when there is none
  ncalls,      \* bus calls made by handlers since the top-level caller's emit
  result,      \* the top-level caller's last call and how it ended
  threads,     \* the register calls of concurrent callers (none in Spec)
  typed,       \* a TypedEventBus given the same calls as the bus of registry
  drive,       \* the call made on both buses and what each bus did with it
  world,       \* the demo of src/main.py: its counter, its output, its API client
  prog         \* the body of each handler, where handlers are given programs

vars == <<registry, registered, stack, exc, ncalls, result, threads, typed, drive,
          world, prog>>

\* the variables of the other specifications, which Spec leaves alone
aux == <<threads, typed, drive, world, prog>>

----------------------------------------------------------------------------
\* The registry operations, as functions of the dict.

\* (a variant that assigns a fresh set on every call)
RegisterOverwrites(reg, e, h) ==
  [x \in DOMAIN reg \cup {e} |-> IF x = e THEN {h} ELSE reg[x]]

\* (a variant that only adds to an existing set)
RegisterNoCreate(reg, e, h) ==
  [x \in DOMAIN reg |-> IF x = e THEN reg[x] \cup {h} ELSE reg[x]]

\* register: "if not self.registry.get(e, None): self.registry[e] = {h}
\*            else: self.registry[e].add(h)"
RegisterOp(reg, e, h) ==
  IF ~(e \in DOMAIN reg /\ reg[e] # {})
  THEN [x \in DOMAIN reg \cup {e} |-> IF x = e THEN {h} ELSE reg[x]]
  ELSE [x \in DOMAIN reg |-> IF x = e THEN reg[x] \cup {h} ELSE reg[x]]

\* register creates a new set object for e (the first branch above)
RegisterCreates(reg, e) == ~(e \in DOMAIN reg /\ reg[e] # {})

\* (variants: a lookup with .get(e, set()), and set.discard for set.remove)
UnregisterRaisesGet(reg, e, h) == e \in DOMAIN reg /\ h \notin reg[e]
UnregisterRaisesDiscard(reg, e, h) == e \notin DOMAIN reg

\* unregister: "self.registry[e].remove(h)" raises KeyError when e is no key
\* (dict subscript) and when h is not in the set (set.remove)
UnregisterRaises(reg, e, h) == e \notin DOMAIN reg \/ h \notin reg[e]

\* (a variant without the del)
UnregisterKeepsKey(reg, e, h) ==
  [x \in DOMAIN reg |-> IF x = e THEN reg[x] \ {h} ELSE reg[x]]

\* (a variant that deletes the event's entry whenever a handler is removed)
UnregisterDropsEvent(reg, e, h) == [x \in DOMAIN reg \ {e} |-> reg[x]]

\* (a variant that removes the handler from the set of every event)
UnregisterEverywhere(reg, e, h) ==
  LET keys == {x \in DOMAIN reg : reg[x] \ {h} # {}}
  IN [x \in keys |-> reg[x] \ {h}]

\* unregister: remove h, then "if len(self.registry[e]) == 0: del self.registry[e]"
UnregisterOp(reg, e, h) ==
  LET removed == [x \in DOMAIN reg |-> IF x = e THEN reg[x] \ {h} ELSE reg[x]]
  IN IF e \in DOMAIN removed /\ Cardinality(removed[e]) = 0
     THEN [x \in DOMAIN removed \ {e} |-> removed[x]]
     ELSE removed

\* emit: "self.registry.get(event_name, [])"
EmitLookup(reg, e) == IF e \in DOMAIN reg THEN reg[e] ELSE {}

\* TypedEventBus.emit: "event_handler(event_name, data)"
TypedArgs(e, p) == <<e, p>>

\* UntypedEventBus.emit: "event_handler(data)"
UntypedArgs(e, p) == <<p>>

----------------------------------------------------------------------------
\* One emission in progress: the for loop of emit and its set iterator.
\*   event, data   the arguments of emit
\*   used          the set's size when the iterator was created (si_used)
\*   rest          the handlers in table slots the iterator has not passed
\*   moved         a handler was added to the set since the iterator's last
\*                 step: it lies in a slot the iterator has passed or in one it
\*                 has not (its hash decides), and the add may have resized the
\*                 table, which moves every handler to another slot
\*   detached      the iterated set object is no longer the registry's
\*   cur, args     the handler now running and the arguments it was given
\*   fresh         the running handler has made no bus call yet
\*   snap, count, touched   history: the set at emission time, how often each
\*                 handler was invoked (2 = twice or more), and whether the
\*                 set was changed during the fan-out
NewFrame(e, p, hs) ==
  [event |-> e, data |-> p, used |-> Cardinality(hs), rest |-> hs,
   moved |-> FALSE, detached |-> FALSE, cur |-> NoHandler, args |-> <<>>, fresh |-> FALSE,
   snap |-> hs, count |-> [h \in Handlers |-> 0], touched |-> FALSE]

\* (a variant that iterates a copy made when emit is called)
SnapshotSet(f, reg) == f.snap

\* the set object the loop iterates: the registry's own set, not a copy; a set
\* emptied by unregister is deleted from the dict and stays empty
LiveSet(f, reg) == IF f.detached THEN {} ELSE reg[f.event]

\* the set iterator's check "Set changed size during iteration"
SetChanged(f, reg) == Cardinality(LiveSet(f, reg)) # f.used

\* the handlers the iterator can still yield, when no add has moved them
Yieldable(f, reg) == f.rest \cap LiveSet(f, reg)

\* the sets of handlers the iterator may still reach: after an add, any part
\* of the set
Reachable(f, reg) ==
  IF f.moved THEN SUBSET LiveSet(f, reg) ELSE {Yieldable(f, reg)}

\* the loop body: call handler h
Invoke(f, h) ==
  [f EXCEPT !.rest = @ \ {h}, !.cur = h,
            !.args = [typed |-> TypedArgs(f.event, f.data),
                      untyped |-> UntypedArgs(f.event, f.data)],
            !.fresh = TRUE, !.count[h] = IF @ < 2 THEN @ + 1 ELSE 2]

\* (a variant whose loop body catches what a handler raises)
EmitPropagatesUncaught(kind) == kind = "RuntimeError"

\* emit has no try block: an exception of any kind leaves the loop
EmitPropagates(kind) == TRUE

Top(stk) == stk[Len(stk)]
\* (a variant in which the outermost emit is the first to end)
PopOutermost(stk) == SubSeq(stk, 2, Len(stk))
Pop(stk) == SubSeq(stk, 1, Len(stk) - 1)
TopLevel == Len(stack) = 0

\* the caller (the top-level caller or the running handler) makes a bus call
CanCall == exc = "none" /\ (TopLevel \/ ncalls < MaxCalls)
Counted == IF TopLevel THEN 0 ELSE ncalls + 1
Bump(stk) == IF stk = <<>> THEN stk ELSE [stk EXCEPT ![Len(stk)].fresh = FALSE]
\* the record of a top-level call; known and undo are history: whether the
\* pair <<e, x>> was registered when the call was made, and whether the call is
\* an unregister(e, x) that follows the caller's register(e, x)
Called(op, e, x, how) ==
  IF TopLevel
  THEN [op |-> op, event |-> e, arg |-> x, outcome |-> how,
        known |-> <<e, x>> \in registered,
        undo |-> op = "unregister" /\ result.op = "register"
                 /\ result.event = e /\ result.arg = x]
  ELSE result

\* the frames whose iterator walks the registry's current set of e
FramesOn(stk, e) == {i \in 1..Len(stk) : stk[i].event = e /\ ~stk[i].detached}

\* no call made yet; no concurrent callers
NoCall ==
  [op |-> "none", event |-> "none", arg |-> "none", outcome |-> "none",
   known |-> FALSE, undo |-> FALSE]
NoThreads == [t \in {} |-> {}]
NoWorld == [phase |-> "none"]
NoProg == [h \in {} |-> <<>>]

\* TypedEventBus.__init__: "self.registry = {}", "self.event_handlers = dict()"
TypedInit == [registry |-> [x \in {} |-> {}], event_handlers |-> [x \in {} |-> {}]]

\* what one bus did with a call: how the call ended, the handlers its loop has
\* still to call, and the handlers called with the arguments given to them
Did(how, hs) == [outcome |-> how, rest |-> hs, invoked |-> {}]
NoDrive ==
  [op |-> "none", event |-> "none", arg |-> "none",
   untyped |-> Did("none", {}), typed |-> Did("none", {})]

----------------------------------------------------------------------------
Init ==
  /\ registry = [x \in {} |-> {}]
  /\ registered = {}
  /\ stack = <<>>
  /\ exc = "none"
  /\ ncalls = 0
  /\ result = NoCall
  /\ threads = NoThreads
  /\ typed = TypedInit
  /\ drive = NoDrive
  /\ world = NoWorld
  /\ prog = NoProg

\* register(e, h).  set.add of a member changes nothing; an add of a new
\* handler to a set being iterated leaves open what its iterators still reach
\* (moved).  A set object that register replaces is no longer the one iterated.
Register(e, h) ==
  /\ CanCall
  /\ ncalls' = Counted
  /\ exc' = exc
  /\ registry' = RegisterOp(registry, e, h)
  /\ registered' = registered \cup {<<e, h>>}
  /\ result' = Called("register", e, h, "ok")
  /\ UNCHANGED aux
  /\ IF FramesOn(stack, e) = {} \/ h \in EmitLookup(registry, e)
     THEN stack' = Bump(stack)
     ELSE stack' = [i \in 1..Len(stack) |->
                      LET f == Bump(stack)[i] IN
                      IF i \notin FramesOn(stack, e) THEN f
                      ELSE IF RegisterCreates(registry, e)
                      THEN [f EXCEPT !.detached = TRUE, !.touched = TRUE]
                      ELSE [f EXCEPT !.moved = TRUE, !.touched = TRUE]]

\* unregister(e, h)
Unregister(e, h) ==
  /\ CanCall
  /\ ncalls' = Counted
  /\ UNCHANGED aux
  /\ IF UnregisterRaises(registry, e, h)
     THEN /\ exc' = "KeyError"
          /\ UNCHANGED <<registry, registered>>
          /\ result' = Called("unregister", e, h, "running")
          /\ stack' = Bump(stack)
     ELSE /\ exc' = exc
          /\ registry' = UnregisterOp(registry, e, h)
          /\ registered' = registered \ {<<e, h>>}
          /\ result' = Called("unregister", e, h, "ok")
          /\ stack' = IF TopLevel THEN stack ELSE
                       [i \in 1..Len(stack) |->
                         LET f == Bump(stack)[i] IN
                         IF i \in FramesOn(stack, e)
                         THEN [f EXCEPT !.touched = TRUE,
                                        !.detached = e \notin DOMAIN registry']
                         ELSE f]

\* the for loop of emit over the handlers hs: over nothing it ends at once,
\* otherwise it calls a first handler
EmitOver(e, p, hs) ==
  IF hs = {}
  THEN /\ stack' = Bump(stack)
       /\ result' = Called("emit", e, p, "ok")
  ELSE /\ \E h \in hs :
            stack' = Append(Bump(stack), Invoke(NewFrame(e, p, hs), h))
       /\ result' = Called("emit", e, p, "running")

\* (a variant that looks the event up with self.registry[event_name])
EmitSubscript(e, p) ==
  /\ CanCall
  /\ Len(stack) < MaxDepth
  /\ IF e \in DOMAIN registry
     THEN EmitOver(e, p, registry[e]) /\ exc' = exc
     ELSE /\ exc' = "KeyError"
          /\ stack' = Bump(stack)
          /\ result' = Called("emit", e, p, "running")
  /\ ncalls' = Counted
  /\ UNCHANGED <<registry, registered>>
  /\ UNCHANGED aux

\* (a variant that looks the event up with self.registry.setdefault(e, set()))
EmitSetDefault(e, p) ==
  /\ CanCall
  /\ Len(stack) < MaxDepth
  /\ ncalls' = Counted
  /\ registry' = [x \in DOMAIN registry \cup {e} |-> EmitLookup(registry, x)]
  /\ UNCHANGED <<registered, exc>>
  /\ UNCHANGED aux
  /\ EmitOver(e, p, EmitLookup(registry, e))

\* emit(e, p)
Emit(e, p) ==
  /\ CanCall
  /\ Len(stack) < MaxDepth
  /\ ncalls' = Counted
  /\ UNCHANGED <<registry, registered, exc>>
  /\ UNCHANGED aux
  /\ EmitOver(e, p, EmitLookup(registry, e))

\* the step of the for loop after a handler call is over: the iterator raises
\* RuntimeError when the set's size changed, ends the loop when nothing is
\* left (emit returns to its caller), or yields the next handler
LoopStep ==
  LET f == Top(stack) IN
  IF SetChanged(f, registry)
  THEN /\ stack' = Pop(stack)
       /\ exc' = "RuntimeError"
       /\ result' = result
  ELSE \E R \in Reachable(f, registry) :
         IF R = {}
         THEN /\ stack' = Pop(stack)
              /\ exc' = "none"
              /\ result' = IF Len(stack) = 1 THEN [result EXCEPT !.outcome = "ok"]
                                             ELSE result
         ELSE /\ \E h \in R :
                   stack' = [stack EXCEPT ![Len(stack)] =
                               Invoke([f EXCEPT !.rest = R, !.moved = FALSE], h)]
              /\ exc' = "none"
              /\ result' = result

\* an exception of kind k comes out of the handler call of the top frame: it
\* leaves the loop and the emit
LeaveEmit(k) ==
  IF EmitPropagates(k)
  THEN /\ stack' = Pop(stack)
       /\ exc' = k
       /\ result' = result
  ELSE LoopStep

\* the running handler raises an error of its own
HandlerRaise ==
  /\ exc = "none"
  /\ stack # <<>>
  /\ LeaveEmit("HandlerError")
  /\ UNCHANGED <<registry, registered, ncalls>>
  /\ UNCHANGED aux

\* the running handler returns
HandlerReturn ==
  /\ exc = "none"
  /\ stack # <<>>
  /\ LoopStep
  /\ UNCHANGED <<registry, registered, ncalls>>
  /\ UNCHANGED aux

\* an exception in flight: at top level it reaches the caller; inside a handler
\* call it leaves the handler and then the emit that called the handler
Propagate ==
  /\ exc # "none"
  /\ IF stack = <<>>
     THEN /\ result' = [result EXCEPT !.outcome = exc]
          /\ exc' = "none"
          /\ stack' = stack
     ELSE LeaveEmit(exc)
  /\ UNCHANGED <<registry, registered, ncalls>>
  /\ UNCHANGED aux

Next ==
  \/ \E e \in Events, h \in Handlers : Register(e, h)
  \/ \E e \in Events, h \in Handlers : Unregister(e, h)
  \/ \E e \in Events, p \in Payloads : Emit(e, p)
  \/ HandlerRaise
  \/ HandlerReturn
  \/ Propagate

Spec == Init /\ [][Next]_vars

----------------------------------------------------------------------------
\* Properties.

Frames == {stack[i] : i \in 1..Len(stack)}

\* a handler has just been called and has done nothing yet
JustInvoked(f) == f.cur # NoHandler /\ f.fresh

\* an emit call ends in this step (it returns or an exception leaves it)
EmitEnds == Len(stack') < Len(stack)

\* C1: in every state an event name is a key of the registry if and only if
\* some handler is currently registered for it, and a key's set is exactly
\* the handlers registered for it, never empty.
C1_KeyIffHandlerRegistered ==
  \A e \in Events :
    /\ (e \in DOMAIN registry) <=> (\E h \in Handlers : <<e, h>> \in registered)
    /\ e \in DOMAIN registry =>
         /\ registry[e] # {}
         /\ registry[e] = {h \in Handlers : <<e, h>> \in registered}

\* the last handler of an event was unregistered while another event keeps its
\* entry
C1_Witness ==
  /\ result.op = "unregister" /\ result.outcome = "ok"
  /\ result.event \notin DOMAIN registry
  /\ DOMAIN registry # {}

\* C2: an emission that no handler's own error cuts short has invoked every
\* handler that was in the event's set when emit was called; every handler it
\* invokes is given the payload (typed: and the event name) of the emit call
\* and is registered for that event, not only for another one.
C2_EveryHandlerInvoked ==
  /\ [][(EmitEnds /\ exc' \notin {"HandlerError", "KeyError"}) =>
          \A h \in Top(stack).snap : Top(stack).count[h] >= 1]_vars
  /\ [][\A f \in Frames' : JustInvoked(f) =>
          /\ f.args.untyped = <<f.data>>
          /\ f.args.typed = <<f.event, f.data>>
          /\ <<f.event, f.cur>> \in registered']_vars

\* C3: register(e, h) for a handler already registered for e changes nothing
\* of the bus; an emission whose set is not changed meanwhile invokes each
\* handler of the set once, and has invoked them all when it returns.
C3_RegisterTwiceIsNoOp ==
  /\ [][\A e \in Events, h \in Handlers :
          (<<e, h>> \in registered /\ Register(e, h)) =>
             /\ registry' = registry
             /\ stack' = Bump(stack)
             /\ exc' = exc]_vars
  /\ [][\A f \in Frames' : ~f.touched =>
          \A h \in Handlers :
             f.count[h] = IF h \in f.snap /\ h \notin f.rest THEN 1 ELSE 0]_vars
  /\ [][(EmitEnds /\ exc = "none" /\ exc' = "none" /\ ~Top(stack).touched) =>
          Top(stack).rest = {}]_vars

\* the caller registered a handler that was registered already, next to
\* another handler of the same event
C3_Witness ==
  /\ result.op = "register" /\ result.known
  /\ Cardinality(registry[result.event]) >= 2

\* C4: emit(e, p) for an event without registry entry raises nothing, calls no
\* handler and leaves the registry as it was.
C4_EmitUnknownIsNoOp ==
  [][\A e \in Events, p \in Payloads :
       (e \notin DOMAIN registry /\ Emit(e, p)) =>
          /\ registry' = registry
          /\ exc' = "none"
          /\ stack' = Bump(stack)
          /\ TopLevel => result'.outcome = "ok"]_vars

\* the caller emitted an event that has no entry, while another event has
\* handlers
C4_Witness ==
  /\ result.op = "emit" /\ result.outcome = "ok"
  /\ result.event \notin DOMAIN registry
  /\ DOMAIN registry # {}

C6_UnregisterUnknownHandlerRaises ==
  [][\A e \in Events, h \in Handlers :
       (e \in DOMAIN registry /\ h \notin registry[e] /\ Unregister(e, h)) =>
          /\ exc' = "KeyError"
          /\ registry' = registry
          /\ e \in DOMAIN registry' /\ registry'[e] = registry[e]]_vars

\* the caller's unregister of a handler that is not in the event's set has
\* failed
C6_Witness ==
  /\ result.op = "unregister" /\ result.outcome = "KeyError"
  /\ result.event \in DOMAIN registry
  /\ result.arg \notin registry[result.event]
  /\ TopLevel /\ exc = "none"

\* C7: a handler is invoked for an event only while it is registered for it:
\* after unregister(e, h) no emission of e, one in progress included, calls h
\* until h is registered for e again.
C7_NotInvokedOnceUnregistered ==
  \A f \in Frames : JustInvoked(f) => <<f.event, f.cur>> \in registered

\* an emission goes on to call a handler after a handler it had not reached
\* was unregistered by another handler
C7_Witness ==
  /\ stack # <<>>
  /\ JustInvoked(Top(stack))
  /\ \E h \in Top(stack).snap :
       /\ Top(stack).count[h] = 0
       /\ <<Top(stack).event, h>> \notin registered

\* C8: emit iterates a snapshot: whatever handlers register or unregister
\* during an emission, it goes on to invoke exactly the handlers of the set at
\* emission time that it has not invoked yet.
C8_IteratesSnapshot ==
  \A f \in Frames :
    /\ ~SetChanged(f, registry)
    /\ Reachable(f, registry) = {{h \in f.snap : f.count[h] = 0}}

\* C9: emit raises no error of the bus's own: the only errors that leave an
\* emit are those its handlers raise.
C9_EmitNeverFails == exc # "RuntimeError" /\ result.outcome # "RuntimeError"

\* C10: an error a handler raises leaves the emit that called the handler and
\* every enclosing emit, one after the other, and reaches the top-level
\* caller; on the way no handler is called and the registry does not change.
C10_HandlerErrorPropagates ==
  /\ [][HandlerRaise =>
          (exc' = "HandlerError" /\ stack' = Pop(stack) /\ registry' = registry)]_vars
  /\ [][(exc # "none" /\ stack # <<>>) =>
          (exc' = exc /\ stack' = Pop(stack) /\ registry' = registry)]_vars
  /\ [][(exc # "none" /\ stack = <<>>) =>
          (exc' = "none" /\ result'.outcome = exc /\ registry' = registry)]_vars

\* a handler called by a nested emit has raised: the error is in the handler
\* of the enclosing emit, which has handlers left that it will not call
C10_Witness ==
  /\ exc = "HandlerError"
  /\ Len(stack) = 1
  /\ ~stack[1].moved
  /\ Yieldable(stack[1], registry) # {}

\* C11: emit is synchronous and nested: while an emit made by a handler is in
\* progress, no enclosing emit calls a handler or ends; an emit whose set was
\* left alone has invoked every handler of the event when it returns to the
\* handler that made it; and when the top-level caller's emit has returned, no
\* emission is in progress.
C11_NestedEmitIsSynchronous ==
  /\ [][/\ Len(stack') >= Len(stack) - 1
        /\ \A i \in 1..(Len(stack) - 1) :
              /\ stack'[i].cur = stack[i].cur
              /\ stack'[i].count = stack[i].count
              /\ stack'[i].rest = stack[i].rest]_vars
  /\ [][(Len(stack) >= 2 /\ EmitEnds /\ exc = "none" /\ exc' = "none"
           /\ ~Top(stack).touched) =>
          /\ \A h \in Top(stack).snap : Top(stack).count[h] = 1
          /\ Top(stack').cur = stack[Len(stack) - 1].cur]_vars
  /\ [][(result'.op = "emit" /\ result'.outcome = "ok") => stack' = <<>>]_vars

\* the last of two handlers of an event is running, called by an emit that a
\* handler of another event made, and that other event has a handler left
C11_Witness ==
  /\ Len(stack) = 2 /\ exc = "none"
  /\ stack[1].event # stack[2].event
  /\ Cardinality(stack[2].snap) = 2 /\ stack[2].rest = {} /\ ~stack[2].touched
  /\ ~stack[1].moved /\ Yieldable(stack[1], registry) # {}

\* C12 (as stated): register(e, h) followed by unregister(e, h) leaves the
\* registry without an entry for e.
C12_RegisterThenUnregisterDropsEvent ==
  [][\A e \in Events, h \in Handlers :
       (TopLevel /\ result.op = "register" /\ result.event = e /\ result.arg = h
          /\ Unregister(e, h)) =>
          e \notin DOMAIN registry']_vars

\* C12 (amended): register(e, h) followed by unregister(e, h) succeeds and
\* removes h alone: the registry is left without an entry for e exactly when
\* no other handler is registered for e, e otherwise keeps its other handlers,
\* and the other events keep theirs.
C12_RegisterThenUnregisterRemovesHandler ==
  [][\A e \in Events, h \in Handlers :
       (TopLevel /\ result.op = "register" /\ result.event = e /\ result.arg = h
          /\ Unregister(e, h)) =>
          /\ exc' = "none" /\ result'.outcome = "ok"
          /\ (e \notin DOMAIN registry') <=> (registry[e] = {h})
          /\ \A x \in Events :
                EmitLookup(registry', x) =
                  IF x = e THEN registry[e] \ {h} ELSE EmitLookup(registry, x)]_vars

\* the caller has registered and then unregistered the only handler of an
\* event, whose entry is gone, while another event keeps its entry
C12_Witness ==
  /\ result.op = "unregister" /\ result.undo /\ result.outcome = "ok"
  /\ result.event \notin DOMAIN registry
  /\ DOMAIN registry # {}

\* C13: a successful unregister(e, h) removes h from e's set and changes
\* nothing else of the registry; an emit(e, x) that follows it iterates the
\* remaining handlers of e, and an emission whose set is left alone invokes no
\* handler outside the set it started from and has invoked all of that set
\* when it returns.
C13_UnregisterRemovesOnlyThatHandler ==
  /\ [][\A e \in Events, h \in Handlers :
          (e \in DOMAIN registry /\ h \in registry[e] /\ Unregister(e, h)) =>
             /\ exc' = exc
             /\ \A x \in Events :
                   EmitLookup(registry', x) =
                     IF x = e THEN registry[e] \ {h} ELSE EmitLookup(registry, x)]_vars
  /\ [][\A e \in Events, p \in Payloads :
          (TopLevel /\ result.op = "unregister" /\ result.outcome = "ok"
             /\ result.event = e /\ Emit(e, p)) =>
             /\ result.arg \notin EmitLookup(registry, e)
             /\ \A f \in Frames' :
                   /\ f.snap = EmitLookup(registry, e)
                   /\ f.cur \in f.snap \ {result.arg}]_vars
  /\ [][\A f \in Frames' : ~f.touched =>
          \A h \in Handlers \ f.snap : f.count[h] = 0]_vars
  /\ [][(EmitEnds /\ exc = "none" /\ exc' = "none" /\ ~Top(stack).touched) =>
          \A h \in Top(stack).snap : Top(stack).count[h] >= 1]_vars

\* the caller has unregistered a handler from an event that keeps other
\* handlers, and the handler is still registered for another event
C13_Witness ==
  /\ TopLevel /\ result.op = "unregister" /\ result.outcome = "ok"
  /\ result.event \in DOMAIN registry
  /\ \E x \in DOMAIN registry \ {result.event} : result.arg \in registry[x]

\* C14: register(e, h) raises nothing in any registry state; after it e has an
\* entry (created if there was none) that holds h and every handler it held
\* before, and every other event's entry is as it was.
C14_RegisterNeverFails ==
  [][\A e \in Events, h \in Handlers :
       Register(e, h) =>
          /\ exc' = "none"
          /\ TopLevel => result'.outcome = "ok"
          /\ DOMAIN registry' = DOMAIN registry \cup {e}
          /\ h \in registry'[e]
          /\ EmitLookup(registry, e) \subseteq registry'[e]
          /\ registry'[e] \subseteq EmitLookup(registry, e) \cup {h}
          /\ \A x \in DOMAIN registry \ {e} : registry'[x] = registry[x]]_vars

\* the caller has registered a new handler for an event that had no entry,
\* while another event has handlers
C14_Witness ==
  /\ TopLevel /\ result.op = "register" /\ ~result.known /\ result.outcome = "ok"
  /\ registry[result.event] = {result.arg}
  /\ DOMAIN registry # {result.event}

\* C15: unregister(e, h) for an event without registry entry does nothing: it
\* returns normally and the registry is unchanged.
C15_UnregisterUnknownEventDoesNothing ==
  [][\A e \in Events, h \in Handlers :
       (e \notin DOMAIN registry /\ Unregister(e, h)) =>
          (exc' = "none" /\ registry' = registry)]_vars

\* C16: the registry changes only in a register or unregister step, never in
\* a step of emit; an emission during which the event's set is left alone has,
\* when it returns, invoked each handler registered for the event once and no
\* other handler.
C16_EmitLeavesRegistry ==
  /\ [][registry' # registry =>
          \E e \in Events, h \in Handlers : Register(e, h) \/ Unregister(e, h)]_vars
  /\ [][(EmitEnds /\ exc = "none" /\ exc' = "none" /\ ~Top(stack).touched) =>
          /\ registry' = registry
          /\ \A h \in Handlers :
                Top(stack).count[h] =
                  IF h \in EmitLookup(registry', Top(stack).event) THEN 1 ELSE 0]_vars

\* the caller's emit of an event with two handlers has returned
C16_Witness ==
  /\ TopLevel /\ result.op = "emit" /\ result.outcome = "ok"
  /\ Cardinality(EmitLookup(registry, result.event)) >= 2

----------------------------------------------------------------------------
\* Concurrent callers.  The bus takes no lock: register is the statements
\* "if not self.registry.get(e, None)" / "self.registry[e] = {h}" /
\* "self.registry[e].add(h)", and a thread switch can fall between the lookup
\* and the branch taken on its result, and between the subscript and the add.

Threads == {"t1", "t2"}

\* register calls each thread makes
MaxThreadCalls == 2

\* (a variant that adds to the set another caller has installed meanwhile)
StoreMerge(reg, e, h) ==
  [x \in DOMAIN reg \cup {e} |-> IF x = e THEN EmitLookup(reg, e) \cup {h} ELSE reg[x]]

\* "self.registry[event_name] = {event_handler}": a fresh one-element set
StoreFresh(reg, e, h) ==
  [x \in DOMAIN reg \cup {e} |-> IF x = e THEN {h} ELSE reg[x]]

\* "self.registry[event_name].add(event_handler)"
AddTo(reg, e, h) ==
  [x \in DOMAIN reg |-> IF x = e THEN reg[x] \cup {h} ELSE reg[x]]

\* a thread between calls
IdleThread ==
  [pc |-> "idle", event |-> "none", handler |-> "none", saw |-> "none",
   stale |-> FALSE, n |-> 0]

RaceInit ==
  /\ registry = [x \in {} |-> {}]
  /\ registered = {}
  /\ stack = <<>>
  /\ exc = "none"
  /\ ncalls = 0
  /\ result = NoCall
  /\ threads = [t \in Threads |-> IdleThread]
  /\ typed = TypedInit
  /\ drive = NoDrive
  /\ world = NoWorld
  /\ prog = NoProg

\* thread t calls register(e, h)
RaceCall(t, e, h) ==
  /\ threads[t].pc \in {"idle", "done"}
  /\ threads[t].n < MaxThreadCalls
  /\ threads' = [threads EXCEPT ![t] =
                   [pc |-> "check", event |-> e, handler |-> h, saw |-> "none",
                    stale |-> FALSE, n |-> threads[t].n + 1]]
  /\ UNCHANGED <<registry, registered, stack, exc, ncalls, result, typed, drive, world, prog>>

\* "if not self.registry.get(event_name, None)": the lookup and its result
RaceCheck(t) ==
  /\ threads[t].pc = "check"
  /\ threads' = [threads EXCEPT ![t] =
                   IF RegisterCreates(registry, threads[t].event)
                   THEN [@ EXCEPT !.pc = "store", !.saw = "absent"]
                   ELSE [@ EXCEPT !.pc = "load", !.saw = "present"]]
  /\ UNCHANGED <<registry, registered, stack, exc, ncalls, result, typed, drive, world, prog>>

\* the first branch: the assignment replaces whatever set the entry holds by
\* now; a thread that holds the replaced set holds a set the registry no
\* longer has.  The call returns.
RaceStore(t) ==
  LET e == threads[t].event IN
  /\ threads[t].pc = "store"
  /\ registry' = StoreFresh(registry, e, threads[t].handler)
  /\ registered' = registered \cup {<<e, threads[t].handler>>}
  /\ threads' = [u \in Threads |->
                   IF u = t THEN [threads[u] EXCEPT !.pc = "done"]
                   ELSE IF threads[u].pc = "add" /\ threads[u].event = e
                   THEN [threads[u] EXCEPT !.stale = TRUE]
                   ELSE threads[u]]
  /\ UNCHANGED <<stack, exc, ncalls, result, typed, drive, world, prog>>

\* the second branch, "self.registry[event_name]": the thread gets the set
\* the entry holds now
RaceLoad(t) ==
  /\ threads[t].pc = "load"
  /\ threads' = [threads EXCEPT ![t].pc = "add"]
  /\ UNCHANGED <<registry, registered, stack, exc, ncalls, result, typed, drive, world, prog>>

\* the second branch, ".add(event_handler)", on the set the thread holds.  The
\* call returns.
RaceAdd(t) ==
  /\ threads[t].pc = "add"
  /\ registry' = IF threads[t].stale THEN registry
                 ELSE AddTo(registry, threads[t].event, threads[t].handler)
  /\ registered' = registered \cup {<<threads[t].event, threads[t].handler>>}
  /\ threads' = [threads EXCEPT ![t].pc = "done"]
  /\ UNCHANGED <<stack, exc, ncalls, result, typed, drive, world, prog>>

RaceNext ==
  \/ \E t \in Threads, e \in Events, h \in Handlers : RaceCall(t, e, h)
  \/ \E t \in Threads : RaceCheck(t)
  \/ \E t \in Threads : RaceStore(t)
  \/ \E t \in Threads : RaceLoad(t)
  \/ \E t \in Threads : RaceAdd(t)

RaceSpec == RaceInit /\ [][RaceNext]_vars

\* C18: a caller that found no entry installs a fresh one-element set, whatever
\* the entry holds by then; so when two callers have registered different
\* handlers for the same event and both found no entry, only one of the two
\* handlers is in the registry after both calls have returned.
C18_RegisterRaceLosesHandler ==
  /\ [][\A t \in Threads :
          RaceStore(t) =>
            /\ threads[t].saw = "absent"
            /\ registry'[threads[t].event] = {threads[t].handler}]_vars
  /\ [][\A t, u \in Threads :
          (/\ t # u
           /\ threads'[t].pc = "done" /\ threads'[u].pc = "done"
           /\ threads'[t].saw = "absent" /\ threads'[u].saw = "absent"
           /\ threads'[t].event = threads'[u].event
           /\ threads'[t].handler # threads'[u].handler) =>
            /\ <<threads'[t].event, threads'[t].handler>> \in registered'
            /\ <<threads'[u].event, threads'[u].handler>> \in registered'
            /\ Cardinality(registry'[threads'[t].event]
                             \cap {threads'[t].handler, threads'[u].handler}) = 1]_vars

\* both calls have returned, each having found no entry for the event, and one
\* of the two handlers is not in the event's set
C18_Witness ==
  /\ threads # NoThreads
  /\ threads["t1"].pc = "done" /\ threads["t2"].pc = "done"
  /\ threads["t1"].saw = "absent" /\ threads["t2"].saw = "absent"
  /\ threads["t1"].event = threads["t2"].event
  /\ threads["t1"].handler # threads["t2"].handler
  /\ threads["t1"].handler \notin registry[threads["t1"].event]
  /\ registry[threads["t1"].event] = {threads["t2"].handler}

----------------------------------------------------------------------------
\* The two buses side by side.  TypedEventBus (bus.py:23-64) and
\* UntypedEventBus (bus.py:67-106) are separate classes; a driver makes every
\* call on one bus of each class, with handlers that return without calling
\* the bus.

\* TypedEventBus.register: "if not self.registry.get(event_name, None):
\*   self.registry[event_name] = {func}  else: self.registry[event_name].add(func)"
TypedRegisterOp(reg, e, h) ==
  IF e \notin DOMAIN reg \/ reg[e] = {}
  THEN [x \in DOMAIN reg \cup {e} |-> IF x = e THEN {h} ELSE reg[x]]
  ELSE [reg EXCEPT ![e] = @ \cup {h}]

\* TypedEventBus.unregister: "self.registry[event_name].remove(event_handler)"
\* raises KeyError for a missing key and for a missing member
TypedUnregisterRaises(reg, e, h) ==
  IF e \in DOMAIN reg THEN h \notin reg[e] ELSE TRUE

\* (a variant without the del)
TypedUnregisterKeepsKey(reg, e, h) == [reg EXCEPT ![e] = @ \ {h}]

\* TypedEventBus.unregister: the remove, then
\* "if len(self.registry[event_name]) == 0: del self.registry[event_name]"
TypedUnregisterOp(reg, e, h) ==
  IF Cardinality(reg[e] \ {h}) = 0
  THEN [x \in DOMAIN reg \ {e} |-> reg[x]]
  ELSE [reg EXCEPT ![e] = @ \ {h}]

\* TypedEventBus.emit: "self.registry.get(event_name, [])"
TypedEmitLookup(reg, e) == IF e \in DOMAIN reg THEN reg[e] ELSE {}

PairInit ==
  /\ registry = [x \in {} |-> {}]
  /\ registered = {}
  /\ stack = <<>>
  /\ exc = "none"
  /\ ncalls = 0
  /\ result = NoCall
  /\ threads = NoThreads
  /\ typed = TypedInit
  /\ drive = NoDrive
  /\ world = NoWorld
  /\ prog = NoProg

\* the driver can make its next call: both buses are done with the last one
PairIdle == drive.untyped.rest = {} /\ drive.typed.rest = {}

\* register(e, h) on both buses
PairRegister(e, h) ==
  /\ PairIdle
  /\ registry' = RegisterOp(registry, e, h)
  /\ typed' = [typed EXCEPT !.registry = TypedRegisterOp(@, e, h)]
  /\ drive' = [op |-> "register", event |-> e, arg |-> h,
               untyped |-> Did("ok", {}), typed |-> Did("ok", {})]
  /\ UNCHANGED <<registered, stack, exc, ncalls, result, threads, world, prog>>

\* unregister(e, h) on both buses; the driver catches the KeyError of each
PairUnregister(e, h) ==
  /\ PairIdle
  /\ registry' = IF UnregisterRaises(registry, e, h) THEN registry
                 ELSE UnregisterOp(registry, e, h)
  /\ typed' = IF TypedUnregisterRaises(typed.registry, e, h) THEN typed
              ELSE [typed EXCEPT !.registry = TypedUnregisterOp(@, e, h)]
  /\ drive' = [op |-> "unregister", event |-> e, arg |-> h,
               untyped |-> Did(IF UnregisterRaises(registry, e, h)
                               THEN "KeyError" ELSE "ok", {}),
               typed |-> Did(IF TypedUnregisterRaises(typed.registry, e, h)
                             THEN "KeyError" ELSE "ok", {})]
  /\ UNCHANGED <<registered, stack, exc, ncalls, result, threads, world, prog>>

\* emit(e, p) on both buses: each starts its loop over the set it looked up
PairEmit(e, p) ==
  /\ PairIdle
  /\ drive' = [op |-> "emit", event |-> e, arg |-> p,
               untyped |-> Did("ok", EmitLookup(registry, e)),
               typed |-> Did("ok", TypedEmitLookup(typed.registry, e))]
  /\ UNCHANGED <<registry, typed, registered, stack, exc, ncalls, result, threads, world, prog>>

\* UntypedEventBus.emit calls its next handler: "event_handler(data)"
PairInvokeUntyped ==
  /\ \E h \in drive.untyped.rest :
        drive' = [drive EXCEPT
                    !.untyped.rest = @ \ {h},
                    !.untyped.invoked = @ \cup {<<h, UntypedArgs(drive.event, drive.arg)>>}]
  /\ UNCHANGED <<registry, typed, registered, stack, exc, ncalls, result, threads, world, prog>>

\* TypedEventBus.emit calls its next handler: "event_handler(event_name, data)"
PairInvokeTyped ==
  /\ \E h \in drive.typed.rest :
        drive' = [drive EXCEPT
                    !.typed.rest = @ \ {h},
                    !.typed.invoked = @ \cup {<<h, TypedArgs(drive.event, drive.arg)>>}]
  /\ UNCHANGED <<registry, typed, registered, stack, exc, ncalls, result, threads, world, prog>>

PairNext ==
  \/ \E e \in Events, h \in Handlers : PairRegister(e, h)
  \/ \E e \in Events, h \in Handlers : PairUnregister(e, h)
  \/ \E e \in Events, p \in Payloads : PairEmit(e, p)
  \/ PairInvokeUntyped
  \/ PairInvokeTyped

PairSpec == PairInit /\ [][PairNext]_vars

\* C19: given the same calls, a TypedEventBus and an UntypedEventBus hold the
\* same registry after every call, end every call the same way (the same
\* unregister calls fail), and an emit has called the same handlers on both
\* when it is over; each handler gets the payload, preceded by the event name
\* on the typed bus.
C19_TypedAndUntypedAgree ==
  /\ typed.registry = registry
  /\ typed.event_handlers = TypedInit.event_handlers
  /\ drive.typed.outcome = drive.untyped.outcome
  /\ PairIdle =>
       {c[1] : c \in drive.typed.invoked} = {c[1] : c \in drive.untyped.invoked}
  /\ \A c \in drive.untyped.invoked : c[2] = <<drive.arg>>
  /\ \A c \in drive.typed.invoked : c[2] = <<drive.event, drive.arg>>
  /\ drive.op = "emit" =>
       drive.typed.rest \cup {c[1] : c \in drive.typed.invoked}
         = drive.untyped.rest \cup {c[1] : c \in drive.untyped.invoked}

\* both buses have called the two handlers of an event, after an unregister
\* that left another event without entry
C19_Witness ==
  /\ drive.op = "emit" /\ PairIdle
  /\ Cardinality(drive.typed.invoked) = 2
  /\ Cardinality(drive.untyped.invoked) = 2
  /\ Cardinality(DOMAIN typed.registry) = 1

----------------------------------------------------------------------------
\* The demo of src/main.py: an UntypedEventBus with one handler each for
\* security_event, log_event and api_call, and an API client whose methods
\* emit api_call and (all but get) security_event.  The handlers call emit on
\* the bus and never register or unregister: during an emission the iterated
\* set keeps its size.

\* the API methods, named by the data of their security event
Methods == {"POST", "PUT", "GET", "DELETE", "PATCH", "OPTION"}

\* API calls the demo's loop makes ("while i < 100")
MaxApiCalls == 3

\* API.post etc.: the data of the api_call event, "API POST call data"
ApiData(m) == <<"API", m, "call data">>

\* API.get is the one method that emits no security_event
EmitsSecurity(m) == m # "GET"

\* closure_security_event_handler: f"security event occurred: {data}"
SecurityMessage(data) == <<"security event occurred:", data>>

\* collections.Counter: a missing key counts 0
CounterGet(c, k) == IF k \in DOMAIN c THEN c[k] ELSE 0

\* (a variant that assigns 1 instead of adding 1)
IncrementOverwrites(c, k) ==
  [x \in DOMAIN c \cup {k} |-> IF x = k THEN 1 ELSE c[x]]

\* "counter[data] += 1"
Increment(c, k) ==
  [x \in DOMAIN c \cup {k} |-> IF x = k THEN CounterGet(c, k) + 1 ELSE c[x]]

\* the sum of a counter's counts
RECURSIVE SumOver(_, _)
SumOver(c, keys) ==
  IF keys = {} THEN 0
  ELSE LET k == CHOOSE x \in keys : TRUE IN c[k] + SumOver(c, keys \ {k})
Total(c) == SumOver(c, DOMAIN c)

\* the statements of each handler's body
BodyLen(h) ==
  CASE h = "security_event_handler" -> 2
    [] h = "log_event_handler" -> 1
    [] h = "api_call_handler" -> 1

\* the frame of an emit that is calling handler h of the set hs: rest are the
\* handlers the loop has still to call, pc the statement of h's body to run
CallFrame(e, p, hs, h) ==
  [event |-> e, data |-> p, rest |-> hs \ {h}, cur |-> h, pc |-> 1]

\* the caller's next statement is the one after its call
Advance(stk) ==
  IF stk = <<>> THEN stk ELSE [stk EXCEPT ![Len(stk)].pc = @ + 1]

\* emit(e, p), called by the handler of the top frame or by the top-level
\* caller: the loop over nothing ends at once, otherwise it calls a first
\* handler
EmitFrom(e, p) ==
  LET hs == EmitLookup(registry, e) IN
  IF hs = {} THEN stack' = Advance(stack)
  ELSE \E h \in hs : stack' = Append(Advance(stack), CallFrame(e, p, hs, h))

\* the running handler has returned: the loop calls its next handler, or ends
\* and emit returns
LoopNext ==
  LET f == Top(stack) IN
  IF f.rest = {} THEN stack' = Pop(stack)
  ELSE \E h \in f.rest :
         stack' = [stack EXCEPT ![Len(stack)] =
                     [f EXCEPT !.rest = @ \ {h}, !.cur = h, !.pc = 1]]

\* the statement the handler h of the top frame is at
Running(h, k) ==
  /\ stack # <<>>
  /\ Top(stack).cur = h
  /\ Top(stack).pc = k

\* the bookkeeping of an emit call and of an output
Emitted(w, e) == [w EXCEPT !.emitted[e] = @ + 1]
Traced(w, what, data) == [w EXCEPT !.trace = Append(@, <<what, data>>)]

\* main: the bus, the counter and the three register calls
DemoInit ==
  /\ registry = RegisterOp(RegisterOp(RegisterOp([x \in {} |-> {}],
                    "security_event", "security_event_handler"),
                    "log_event", "log_event_handler"),
                    "api_call", "api_call_handler")
  /\ registered = {<<"security_event", "security_event_handler">>,
                   <<"log_event", "log_event_handler">>,
                   <<"api_call", "api_call_handler">>}
  /\ stack = <<>>
  /\ exc = "none"
  /\ ncalls = 0
  /\ result = NoCall
  /\ threads = NoThreads
  /\ typed = TypedInit
  /\ drive = NoDrive
  /\ prog = NoProg
  /\ world = [phase |-> "loop", counter |-> [k \in {} |-> 0], nlog |-> 0,
              emitted |-> [e \in {"security_event", "log_event", "api_call"} |-> 0],
              trace |-> <<>>, method |-> "none", pc |-> "idle", calls |-> 0]

\* "random.choice(calls)()": the loop calls an API method
ApiCall(m) ==
  /\ world.phase = "loop" /\ world.pc = "idle"
  /\ world.calls < MaxApiCalls
  /\ world' = [world EXCEPT !.method = m, !.pc = "api_call", !.calls = @ + 1,
                            !.trace = <<>>]
  /\ UNCHANGED <<registry, registered, stack, exc, ncalls, result, threads, typed,
                 drive, prog>>

\* the method's first statement: self.emitter("api_call", "API ... call data")
ApiEmitApiCall ==
  /\ world.pc = "api_call" /\ stack = <<>>
  /\ EmitFrom("api_call", ApiData(world.method))
  /\ world' = [Emitted(world, "api_call") EXCEPT
                 !.pc = IF EmitsSecurity(world.method) THEN "security_event"
                        ELSE "return"]
  /\ UNCHANGED <<registry, registered, exc, ncalls, result, threads, typed,
                 drive, prog>>

\* the method's second statement: self.emitter("security_event", "...")
ApiEmitSecurity ==
  /\ world.pc = "security_event" /\ stack = <<>>
  /\ EmitFrom("security_event", world.method)
  /\ world' = [Emitted(world, "security_event") EXCEPT !.pc = "return"]
  /\ UNCHANGED <<registry, registered, exc, ncalls, result, threads, typed,
                 drive, prog>>

\* the method returns to the loop
ApiReturn ==
  /\ world.pc = "return" /\ stack = <<>>
  /\ world' = [world EXCEPT !.pc = "idle"]
  /\ UNCHANGED <<registry, registered, stack, exc, ncalls, result, threads, typed,
                 drive, prog>>

\* after the loop: bus.emit("log_event", counter)
MainReport ==
  /\ world.phase = "loop" /\ world.pc = "idle"
  /\ EmitFrom("log_event", world.counter)
  /\ world' = [Emitted(world, "log_event") EXCEPT !.phase = "report", !.trace = <<>>]
  /\ UNCHANGED <<registry, registered, exc, ncalls, result, threads, typed,
                 drive, prog>>

\* closure_api_call_handler: emitter("log_event", data)
ApiCallHandler ==
  /\ Running("api_call_handler", 1)
  /\ EmitFrom("log_event", Top(stack).data)
  /\ world' = Emitted(world, "log_event")
  /\ UNCHANGED <<registry, registered, exc, ncalls, result, threads, typed,
                 drive, prog>>

\* closure_security_event_handler: counter[data] += 1
SecurityHandlerCount ==
  /\ Running("security_event_handler", 1)
  /\ stack' = Advance(stack)
  /\ world' = [Traced(world, "count", Top(stack).data) EXCEPT
                 !.counter = Increment(@, Top(stack).data)]
  /\ UNCHANGED <<registry, registered, exc, ncalls, result, threads, typed,
                 drive, prog>>

\* closure_security_event_handler: emitter("log_event", f"security event ...")
SecurityHandlerEmit ==
  /\ Running("security_event_handler", 2)
  /\ EmitFrom("log_event", SecurityMessage(Top(stack).data))
  /\ world' = Emitted(world, "log_event")
  /\ UNCHANGED <<registry, registered, exc, ncalls, result, threads, typed,
                 drive, prog>>

\* log_event_handler: print(data)
LogEventHandler ==
  /\ Running("log_event_handler", 1)
  /\ stack' = Advance(stack)
  /\ world' = [Traced(world, "print", Top(stack).data) EXCEPT !.nlog = @ + 1]
  /\ UNCHANGED <<registry, registered, exc, ncalls, result, threads, typed,
                 drive, prog>>

\* a handler is at the end of its body and returns to the loop of emit
DemoHandlerReturn ==
  /\ stack # <<>>
  /\ Top(stack).pc = BodyLen(Top(stack).cur) + 1
  /\ LoopNext
  /\ UNCHANGED <<registry, registered, exc, ncalls, result, threads, typed,
                 drive, prog, world>>

DemoNext ==
  \/ \E m \in Methods : ApiCall(m)
  \/ ApiEmitApiCall
  \/ ApiEmitSecurity
  \/ ApiReturn
  \/ MainReport
  \/ ApiCallHandler
  \/ SecurityHandlerCount
  \/ SecurityHandlerEmit
  \/ LogEventHandler
  \/ DemoHandlerReturn

DemoSpec == DemoInit /\ [][DemoNext]_vars

\* the API calls made so far are all completed
ApiIdle == world.phase = "loop" /\ world.pc = "idle" /\ stack = <<>>

\* C20: in the demo, whenever the API calls made are completed, the counts of
\* the security counter sum to the number of security_event emissions and the
\* log handler has run once per api_call emission and once per security_event
\* emission; a completed API call other than get has logged its api_call data,
\* then incremented the counter, then logged its security message, and get has
\* only logged its data.
C20_DemoCountsAndOrder ==
  ApiIdle =>
    /\ Total(world.counter) = world.emitted["security_event"]
    /\ world.nlog = world.emitted["api_call"] + world.emitted["security_event"]
    /\ world.method # "none" =>
         world.trace =
           IF EmitsSecurity(world.method)
           THEN << <<"print", ApiData(world.method)>>,
                   <<"count", world.method>>,
                   <<"print", SecurityMessage(world.method)>> >>
           ELSE << <<"print", ApiData(world.method)>> >>

\* the demo has completed several API calls, two of them by the same method
\* other than get
C20_Witness ==
  /\ world.phase = "loop" /\ world.pc = "idle" /\ stack = <<>>
  /\ world.calls >= 2
  /\ EmitsSecurity(world.method)
  /\ CounterGet(world.counter, world.method) = 2

----------------------------------------------------------------------------
\* Handlers that emit.  Each handler's body is a program: the events it emits,
\* one after the other, before it returns (as closure_api_call_handler and
\* closure_security_event_handler of src/main.py emit log_event).  Which
\* handlers are registered for which event, and what each emits, is any of the
\* combinations below.  A Python call nested deeper than the interpreter's
\* recursion limit raises RecursionError; the limit stands at MaxDepth nested
\* emit calls here.

\* the bodies a handler can have: it emits nothing, or one event
Bodies == {<<>>} \cup {<<e>> : e \in Events}

\* a registry holding the handler sets hs[e], with no entry for an empty set
WiredAs(hs) == [e \in {x \in Events : hs[x] # {}} |-> hs[e]]

\* (a variant with a guard against re-entrant emission of an event)
EmitSkipsReentrant(stk, e) == \E i \in 1..Len(stk) : stk[i].event = e

\* emit starts its loop whatever emissions are in progress: it has no guard
EmitSkips(stk, e) == FALSE

\* the events handler h emits
EmitsOf(h) == {prog[h][i] : i \in 1..Len(prog[h])}

\* a handler of event a emits event b
Edge(a, b) == \E h \in EmitLookup(registry, a) : b \in EmitsOf(h)

\* the chains of at most n events in which each is emitted by a handler of
\* the one before
Chains(n) ==
  {c \in UNION {[1..k -> Events] : k \in 1..n} :
     \A i \in 1..(Len(c) - 1) : Edge(c[i], c[i + 1])}

\* a handler of e emits e, directly or through other handlers
OnCycle(e) ==
  \E c \in Chains(Cardinality(Events)) : Edge(e, c[1]) /\ c[Len(c)] = e
Acyclic == \A e \in Events : ~OnCycle(e)

ChainInit ==
  /\ \E hs \in [Events -> SUBSET Handlers] : registry = WiredAs(hs)
  /\ prog \in [Handlers -> Bodies]
  /\ registered = {<<e, h>> \in Events \X Handlers : h \in EmitLookup(registry, e)}
  /\ stack = <<>>
  /\ exc = "none"
  /\ ncalls = 0
  /\ result = [op |-> "none", event |-> "none", outcome |-> "none", nested |-> FALSE]
  /\ threads = NoThreads
  /\ typed = TypedInit
  /\ drive = NoDrive
  /\ world = NoWorld

\* the top-level caller calls emit(e, p)
ChainEmit(e, p) ==
  /\ stack = <<>> /\ exc = "none"
  /\ EmitFrom(e, p)
  /\ result' = [op |-> "emit", event |-> e,
                outcome |-> IF EmitLookup(registry, e) = {} THEN "ok" ELSE "running",
                nested |-> FALSE]
  /\ UNCHANGED <<registry, registered, exc, ncalls, threads, typed, drive, world, prog>>

\* the running handler is at an emit of its body: emit(e, data)
ChainHandlerEmit ==
  /\ stack # <<>> /\ exc = "none"
  /\ Top(stack).pc <= Len(prog[Top(stack).cur])
  /\ LET e == prog[Top(stack).cur][Top(stack).pc] IN
     IF EmitSkips(stack, e)
     THEN stack' = Advance(stack) /\ UNCHANGED <<exc, result>>
     ELSE IF EmitLookup(registry, e) # {} /\ Len(stack) >= MaxDepth
     THEN /\ exc' = "RecursionError"
          /\ UNCHANGED <<stack, result>>
     ELSE /\ EmitFrom(e, Top(stack).data)
          /\ exc' = exc
          /\ result' = [result EXCEPT !.nested = @ \/ EmitLookup(registry, e) # {}]
  /\ UNCHANGED <<registry, registered, ncalls, threads, typed, drive, world, prog>>

\* the running handler is at the end of its body and returns to the loop of
\* emit; the top-level caller's emit returns when its loop ends
ChainHandlerReturn ==
  /\ stack # <<>> /\ exc = "none"
  /\ Top(stack).pc = Len(prog[Top(stack).cur]) + 1
  /\ LoopNext
  /\ result' = IF Len(stack) = 1 /\ Top(stack).rest = {}
               THEN [result EXCEPT !.outcome = "ok"] ELSE result
  /\ UNCHANGED <<registry, registered, exc, ncalls, threads, typed, drive, world, prog>>

\* the exception in flight leaves the running handler and the emit that called
\* it; out of the outermost emit it reaches the top-level caller
ChainPropagate ==
  /\ exc # "none"
  /\ IF stack # <<>>
     THEN /\ EmitPropagates(exc)
          /\ stack' = Pop(stack)
          /\ UNCHANGED <<exc, result>>
     ELSE /\ result' = [result EXCEPT !.outcome = exc]
          /\ exc' = "none"
          /\ stack' = stack
  /\ UNCHANGED <<registry, registered, ncalls, threads, typed, drive, world, prog>>

\* the steps of the running program, which the interpreter goes on taking
ChainRun == ChainHandlerEmit \/ ChainHandlerReturn \/ ChainPropagate

ChainNext ==
  \/ \E e \in Events, p \in Payloads : ChainEmit(e, p)
  \/ ChainHandlerEmit
  \/ ChainHandlerReturn
  \/ ChainPropagate

ChainSpec == ChainInit /\ [][ChainNext]_vars /\ WF_vars(ChainRun)

\* C17: when no handler of an event emits that event, directly or through
\* other handlers, every emit call returns: an emission in progress ends with
\* the caller's emit returned normally, and no error is raised.  The bus has
\* no guard: an emit of an event that is on such a cycle never returns
\* normally.
C17_AcyclicEmitReturns ==
  /\ (Acyclic /\ stack # <<>>) ~> (stack = <<>> /\ result.outcome = "ok")
  /\ [][Acyclic => exc' = "none"]_vars
  /\ [][(stack # <<>> /\ stack' = <<>> /\ exc = "none" /\ exc' = "none") =>
          ~OnCycle(stack[1].event)]_vars

\* the caller's emit has returned after a handler's own emit called a handler,
\* with handlers that form no cycle
C17_Witness ==
  /\ prog # NoProg
  /\ Acyclic
  /\ stack = <<>> /\ result.outcome = "ok" /\ result.nested

====
